---------------------------- MODULE Spec2Model ----------------------------
(***************************************************************************)
(* The file tree of the Qt client: FileTreeItem (qt/FileTreeItem.cc) and   *)
(* the FileTreeModel that owns the items (qt/FileTreeModel.h).             *)
(*                                                                         *)
(* A QString is a sequence of one-character strings; the items live in an  *)
(* arena `items` (item id -> the item's fields), a pointer is an item id   *)
(* and nullptr is NullItem.  Rows are counted from 0 as in the code, so    *)
(* row r of children_ is children_[r + 1] here.                            *)
(***************************************************************************)
EXTENDS Integers, Sequences, FiniteSets, TLC

(* ------------------------------ bounds --------------------------------- *)

\* file indices of a snapshot are 0 .. MaxFiles - 1
MaxFiles == 3
\* the torrent of Spec has the files 0 .. MaxTorrentFiles - 1
MaxTorrentFiles == 2
\* a path has at most MaxDepth segments
MaxDepth == 2
\* file sizes reported by a snapshot are 1 .. MaxSize
MaxSize == 1
\* a selection handed to setWanted / setPriority holds at most MaxSel items
MaxSel == 2

\* a local edit is followed through up to MaxRefreshes routine snapshots
MaxRefreshes == 2

\* the path segments the snapshots use
Names == {<<"a">>, <<"b">>}

(* ----------------------------- constants ------------------------------- *)

COL_NAME == 0
COL_SIZE == 1
COL_PROGRESS == 2
COL_WANTED == 3
COL_PRIORITY == 4

TR_PRI_LOW == -1
TR_PRI_NORMAL == 0
TR_PRI_HIGH == 1

\* the bits of FileTreeItem::priority()
LOW == 1
NORMAL == 2
HIGH == 4

\* Qt::CheckState
Unchecked == 0
PartiallyChecked == 1
Checked == 2

\* (size_t)-1: what first_unhashed_row_ holds after it is assigned row() == -1
SIZE_MAX == 2147483647

NullItem == -1
Root == 0
Slash == "/"

Priorities == {TR_PRI_LOW, TR_PRI_NORMAL, TR_PRI_HIGH}
FileIndices == 0 .. (MaxFiles - 1)

VARIABLES
    items,          \* item id -> FileTreeItem fields; Root is root_item_
    index_cache,    \* FileTreeModel::index_cache_: file index -> item id or NullItem
    last            \* the last call on the model: what it returned (the ids of
                    \* wantedChanged / priorityChanged, the columns of update()),
                    \* ok: no assertion of the call failed, and the entry an
                    \* addFile was given; of the dialog's handlers: whether
                    \* onTorrentsChanged scheduled a refresh, whether refresh
                    \* called filesView->update and with which flag
VARIABLE
    dialog          \* the DetailsDialog over the tree (its filesView's model): ids_,
                    \* changed_torrents_, have_pending_refresh_, whether its tabs
                    \* are enabled, the single-shot timers waiting to call
                    \* refresh(), and the ids of the torrents of the TorrentModel

vars == <<items, index_cache, last, dialog>>

(* ------------------------- QString helpers ----------------------------- *)

\* the first position of '/' in s, 0 when there is none
RECURSIVE SlashPos(_, _)
SlashPos(s, k) ==
    IF k > Len(s) THEN 0
    ELSE IF s[k] = Slash THEN k
    ELSE SlashPos(s, k + 1)

\* filename.split('/'), as the walk over the path's segments
RECURSIVE Split(_)
Split(s) ==
    LET p == SlashPos(s, 1) IN
    IF p = 0 THEN <<s>>
    ELSE <<SubSeq(s, 1, p - 1)>> \o Split(SubSeq(s, p + 1, Len(s)))

RECURSIVE Join(_)
Join(toks) ==
    IF Len(toks) = 1 THEN toks[1]
    ELSE toks[1] \o <<Slash>> \o Join(Tail(toks))

(* --------------------------- FileTreeItem ------------------------------ *)

NoRows == [nm \in Names |-> -1]

\* FileTreeItem(name, file_index, size)
NewItem(nm, fi, sz) ==
    [ name_ |-> nm, parent_ |-> NullItem, children_ |-> <<>>,
      file_index_ |-> fi, total_size_ |-> sz, have_size_ |-> 0,
      is_wanted_ |-> FALSE, priority_ |-> TR_PRI_NORMAL,
      child_rows_ |-> NoRows, first_unhashed_row_ |-> 0 ]

childCount(t, n) == Len(t[n].children_)

\* QHash::value(key, -1) and QHash::insert / remove on child_rows_
RowsValue(rows, nm) == IF nm \in DOMAIN rows THEN rows[nm] ELSE -1

\* FileTreeItem::getMyChildRows: hash the rows from the watermark on
RECURSIVE getMyChildRows(_, _)
getMyChildRows(t, n) ==
    IF t[n].first_unhashed_row_ < childCount(t, n)
    THEN LET r == t[n].first_unhashed_row_
             c == t[n].children_[r + 1]
         IN getMyChildRows(
                [t EXCEPT ![n].child_rows_[t[c].name_] = r,
                          ![n].first_unhashed_row_ = r + 1], n)
    ELSE t

\* appendChild that sets the parent and forgets to append to children_
appendChildUnlinked(t, n, c) ==
    [t EXCEPT ![c].parent_ = n,
              ![n].first_unhashed_row_ = childCount(t, n)]

\* appendChild that puts the child in front of its siblings
appendChildFirst(t, n, c) ==
    [t EXCEPT ![c].parent_ = n,
              ![n].children_ = <<c>> \o @,
              ![n].first_unhashed_row_ = 0]

\* FileTreeItem::appendChild
appendChild(t, n, c) ==
    LET k == childCount(t, n) IN
    [t EXCEPT ![c].parent_ = n,
              ![n].children_ = Append(@, c),
              ![n].first_unhashed_row_ = k]

\* FileTreeItem::child(QString) once the rows are hashed: the lookup in
\* child_rows_, the read of children_[row] and the assertion on its name
childAtRow(t, n, filename) ==
    LET r == RowsValue(t[n].child_rows_, filename) IN
    IF r = -1 THEN [t |-> t, item |-> NullItem, ok |-> TRUE]
    ELSE IF r >= childCount(t, n) THEN [t |-> t, item |-> NullItem, ok |-> FALSE]
    ELSE [t |-> t, item |-> t[n].children_[r + 1],
          ok |-> t[t[n].children_[r + 1]].name_ = filename]

\* child() that reads child_rows_ without hashing the unhashed rows first
childAmongHashed(t, n, filename) == childAtRow(t, n, filename)

\* FileTreeItem::child(QString): the item (NullItem when none), the tree with
\* the parent's rows hashed, and whether the assertion (and the read of
\* children_[row]) went through
child(t, n, filename) == childAtRow(getMyChildRows(t, n), n, filename)

\* FileTreeItem::row
rowAmongHashed(t1, p, n) ==
    LET i == RowsValue(t1[p].child_rows_, t1[n].name_) IN
    [t |-> t1, i |-> i,
     ok |-> i >= 0 /\ i < childCount(t1, p) /\ t1[p].children_[i + 1] = n]

row(t, n) ==
    IF t[n].parent_ # NullItem
    THEN rowAmongHashed(getMyChildRows(t, t[n].parent_), t[n].parent_, n)
    ELSE [t |-> t, i |-> -1, ok |-> TRUE]


\* FileTreeItem::getSubtreeWantedSize: <<have, total>> with the subtree of n added
RECURSIVE getSubtreeWantedSize(_, _, _)
RECURSIVE WantedSizeOfChildren(_, _, _, _)
WantedSizeOfChildren(t, n, k, acc) ==
    IF k > childCount(t, n) THEN acc
    ELSE WantedSizeOfChildren(t, n, k + 1, getSubtreeWantedSize(t, t[n].children_[k], acc))

\* getSubtreeWantedSize() that counts an item whether it is wanted or not
getSubtreeWantedSizeAll(t, n, acc) ==
    WantedSizeOfChildren(t, n, 1,
        <<acc[1] + t[n].have_size_, acc[2] + t[n].total_size_>>)

getSubtreeWantedSize(t, n, acc) ==
    LET own == IF t[n].is_wanted_
               THEN <<acc[1] + t[n].have_size_, acc[2] + t[n].total_size_>>
               ELSE acc
    IN WantedSizeOfChildren(t, n, 1, own)

\* progress() without the test of total != 0
progressUnguarded(t, n) == getSubtreeWantedSize(t, n, <<0, 0>>)

\* FileTreeItem::progress: the quotient have / total as the pair <<have, total>>,
\* <<0, 1>> for d = 0
progress(t, n) ==
    LET ht == getSubtreeWantedSize(t, n, <<0, 0>>) IN
    IF ht[2] # 0 THEN ht ELSE <<0, 1>>

\* size() that folds the wanted subtree for a file too
sizeOfWanted(t, n) == getSubtreeWantedSize(t, n, <<0, 0>>)[2]

\* FileTreeItem::size
size(t, n) ==
    IF t[n].children_ = <<>> THEN t[n].total_size_
    ELSE getSubtreeWantedSize(t, n, <<0, 0>>)[2]

\* the smallest and the largest of a non-empty set of columns
MinOf(S) == CHOOSE x \in S : \A y \in S : x <= y
MaxOf(S) == CHOOSE x \in S : \A y \in S : x >= y

\* FileTreeItem::update, the name: the tree afterwards, the changed columns
\* and whether the assertion in row() went through
\* parent_->first_unhashed_row_ = row(); name_ = name, rw being what row() gave
renameAtRow(rw, p, n, name) ==
    [t |-> [rw.t EXCEPT ![p].first_unhashed_row_ = IF rw.i < 0 THEN SIZE_MAX ELSE rw.i,
                        ![n].name_ = name],
     cols |-> {COL_NAME},
     ok |-> rw.ok]

updateName(t, n, name) ==
    IF t[n].name_ = name THEN [t |-> t, cols |-> {}, ok |-> TRUE]
    ELSE IF t[n].parent_ = NullItem
    THEN [t |-> [t EXCEPT ![n].name_ = name], cols |-> {COL_NAME}, ok |-> TRUE]
    ELSE renameAtRow(row(t, n), t[n].parent_, n, name)

\* update() that sets the wanted flag and the priority whatever update_fields
updateFileAlways(t, n, wanted, prio, have_size, update_fields) ==
    LET isFile == t[n].file_index_ # -1
        haveCh == isFile /\ t[n].have_size_ # have_size
        wantCh == isFile /\ t[n].is_wanted_ # wanted
        prioCh == isFile /\ t[n].priority_ # prio
        t1 == IF haveCh THEN [t EXCEPT ![n].have_size_ = have_size] ELSE t
        t2 == IF wantCh THEN [t1 EXCEPT ![n].is_wanted_ = wanted] ELSE t1
    IN [t |-> IF prioCh THEN [t2 EXCEPT ![n].priority_ = prio] ELSE t2,
        cols |-> (IF haveCh THEN {COL_PROGRESS} ELSE {})
                 \cup (IF wantCh THEN {COL_WANTED} ELSE {})
                 \cup (IF prioCh THEN {COL_PRIORITY} ELSE {})]

\* update() with have_size_ inside the update_fields block too
updateFileHaveGated(t, n, wanted, prio, have_size, update_fields) ==
    LET isFile == t[n].file_index_ # -1
        haveCh == isFile /\ update_fields /\ t[n].have_size_ # have_size
        wantCh == isFile /\ update_fields /\ t[n].is_wanted_ # wanted
        prioCh == isFile /\ update_fields /\ t[n].priority_ # prio
        t1 == IF haveCh THEN [t EXCEPT ![n].have_size_ = have_size] ELSE t
        t2 == IF wantCh THEN [t1 EXCEPT ![n].is_wanted_ = wanted] ELSE t1
    IN [t |-> IF prioCh THEN [t2 EXCEPT ![n].priority_ = prio] ELSE t2,
        cols |-> (IF haveCh THEN {COL_PROGRESS} ELSE {})
                 \cup (IF wantCh THEN {COL_WANTED} ELSE {})
                 \cup (IF prioCh THEN {COL_PRIORITY} ELSE {})]

\* update() that counts the wanted and priority columns outside the
\* update_fields block
updateFileCountsAll(t, n, wanted, prio, have_size, update_fields) ==
    LET isFile == t[n].file_index_ # -1
        haveCh == isFile /\ t[n].have_size_ # have_size
        wantCh == isFile /\ update_fields /\ t[n].is_wanted_ # wanted
        prioCh == isFile /\ update_fields /\ t[n].priority_ # prio
        t1 == IF haveCh THEN [t EXCEPT ![n].have_size_ = have_size] ELSE t
        t2 == IF wantCh THEN [t1 EXCEPT ![n].is_wanted_ = wanted] ELSE t1
    IN [t |-> IF prioCh THEN [t2 EXCEPT ![n].priority_ = prio] ELSE t2,
        cols |-> (IF haveCh THEN {COL_PROGRESS} ELSE {})
                 \cup (IF isFile /\ t[n].is_wanted_ # wanted THEN {COL_WANTED} ELSE {})
                 \cup (IF isFile /\ t[n].priority_ # prio THEN {COL_PRIORITY} ELSE {})]

\* update() without the test fileIndex() != -1 around the fields
updateFileOfAnyItem(t, n, wanted, prio, have_size, update_fields) ==
    LET haveCh == t[n].have_size_ # have_size
        wantCh == update_fields /\ t[n].is_wanted_ # wanted
        prioCh == update_fields /\ t[n].priority_ # prio
        t1 == IF haveCh THEN [t EXCEPT ![n].have_size_ = have_size] ELSE t
        t2 == IF wantCh THEN [t1 EXCEPT ![n].is_wanted_ = wanted] ELSE t1
    IN [t |-> IF prioCh THEN [t2 EXCEPT ![n].priority_ = prio] ELSE t2,
        cols |-> (IF haveCh THEN {COL_PROGRESS} ELSE {})
                 \cup (IF wantCh THEN {COL_WANTED} ELSE {})
                 \cup (IF prioCh THEN {COL_PRIORITY} ELSE {})]

\* FileTreeItem::update, the fields of a file: the tree afterwards and the
\* changed columns
updateFile(t, n, wanted, prio, have_size, update_fields) ==
    LET isFile == t[n].file_index_ # -1
        haveCh == isFile /\ t[n].have_size_ # have_size
        wantCh == isFile /\ update_fields /\ t[n].is_wanted_ # wanted
        prioCh == isFile /\ update_fields /\ t[n].priority_ # prio
        t1 == IF haveCh THEN [t EXCEPT ![n].have_size_ = have_size] ELSE t
        t2 == IF wantCh THEN [t1 EXCEPT ![n].is_wanted_ = wanted] ELSE t1
    IN [t |-> IF prioCh THEN [t2 EXCEPT ![n].priority_ = prio] ELSE t2,
        cols |-> (IF haveCh THEN {COL_PROGRESS} ELSE {})
                 \cup (IF wantCh THEN {COL_WANTED} ELSE {})
                 \cup (IF prioCh THEN {COL_PRIORITY} ELSE {})]

\* FileTreeItem::update: the tree afterwards, the pair it returns and whether
\* the assertion in row() went through
changedColumns(t, cols, ok) ==
    [t |-> t,
     changed |-> IF cols = {} THEN <<-1, -1>> ELSE <<MinOf(cols), MaxOf(cols)>>,
     ok |-> ok]

\* the rest of update() after the name, un being what the name's part gave
updateFields(un, uf) == changedColumns(uf.t, un.cols \cup uf.cols, un.ok)

updateAfterName(un, n, wanted, prio, have_size, update_fields) ==
    updateFields(un, updateFile(un.t, n, wanted, prio, have_size, update_fields))

update(t, n, name, wanted, prio, have_size, update_fields) ==
    updateAfterName(updateName(t, n, name), n, wanted, prio, have_size, update_fields)

\* the bit FileTreeItem::priority() reports for a stored priority_
PriorityBit(p) ==
    IF p = TR_PRI_LOW THEN LOW
    ELSE IF p = TR_PRI_HIGH THEN HIGH
    ELSE NORMAL

\* priority() that adds the item's own bit though it has children
RECURSIVE priorityWithOwn(_, _)
priorityWithOwn(t, n) ==
    {PriorityBit(t[n].priority_)}
    \cup UNION {priorityWithOwn(t, t[n].children_[k]) : k \in 1 .. childCount(t, n)}

\* FileTreeItem::priority: the mask as the set of its bits
RECURSIVE priority(_, _)
priority(t, n) ==
    (IF t[n].children_ = <<>> THEN {PriorityBit(t[n].priority_)} ELSE {})
    \cup UNION {priority(t, t[n].children_[k]) : k \in 1 .. childCount(t, n)}

\* FileTreeItem::priorityString
priorityString(t, n) ==
    LET i == priority(t, n) IN
    IF i = {LOW} THEN "Low"
    ELSE IF i = {HIGH} THEN "High"
    ELSE IF i = {NORMAL} THEN "Normal"
    ELSE "Mixed"

\* FileTreeItem::setSubtreePriority: the tree and the ids afterwards
RECURSIVE setSubtreePriority(_, _, _, _)
RECURSIVE SetPriorityOfChildren(_, _, _, _, _)
SetPriorityOfChildren(t, n, k, i, ids) ==
    IF k > childCount(t, n) THEN [t |-> t, ids |-> ids]
    ELSE LET r == setSubtreePriority(t, t[n].children_[k], i, ids)
         IN SetPriorityOfChildren(r.t, n, k + 1, i, r.ids)

\* setSubtreePriority() that reports a file whether its priority differed or not
setSubtreePriorityAlwaysReports(t, n, i, ids) ==
    LET differs == t[n].priority_ # i
        t1 == IF differs THEN [t EXCEPT ![n].priority_ = i] ELSE t
        ids1 == IF t[n].file_index_ >= 0 THEN ids \cup {t[n].file_index_} ELSE ids
    IN SetPriorityOfChildren(t1, n, 1, i, ids1)

setSubtreePriority(t, n, i, ids) ==
    LET differs == t[n].priority_ # i
        t1 == IF differs THEN [t EXCEPT ![n].priority_ = i] ELSE t
        ids1 == IF differs /\ t[n].file_index_ >= 0
                THEN ids \cup {t[n].file_index_} ELSE ids
    IN SetPriorityOfChildren(t1, n, 1, i, ids1)

\* FileTreeItem::isSubtreeWanted
RECURSIVE isSubtreeWanted(_, _)
RECURSIVE WantedOfChildren(_, _, _, _)
\* the loop of isSubtreeWanted() without the step to PartiallyChecked: the
\* last child's state wins
RECURSIVE WantedOfChildrenLastWins(_, _, _, _)
WantedOfChildrenLastWins(t, n, k, wanted) ==
    IF k > childCount(t, n) THEN wanted
    ELSE WantedOfChildrenLastWins(t, n, k + 1, isSubtreeWanted(t, t[n].children_[k]))

WantedOfChildren(t, n, k, wanted) ==
    IF k > childCount(t, n) THEN wanted
    ELSE LET child_wanted == isSubtreeWanted(t, t[n].children_[k])
             w1 == IF wanted = -1 THEN child_wanted ELSE wanted
             w2 == IF w1 # child_wanted THEN PartiallyChecked ELSE w1
         IN IF w2 = PartiallyChecked THEN w2
            ELSE WantedOfChildren(t, n, k + 1, w2)

isSubtreeWanted(t, n) ==
    IF t[n].children_ = <<>>
    THEN (IF t[n].is_wanted_ THEN Checked ELSE Unchecked)
    ELSE WantedOfChildren(t, n, 1, -1)

\* FileTreeItem::setSubtreeWanted: the tree and the ids afterwards
RECURSIVE setSubtreeWanted(_, _, _, _)
RECURSIVE SetWantedOfChildren(_, _, _, _, _)
SetWantedOfChildren(t, n, k, b, ids) ==
    IF k > childCount(t, n) THEN [t |-> t, ids |-> ids]
    ELSE LET r == setSubtreeWanted(t, t[n].children_[k], b, ids)
         IN SetWantedOfChildren(r.t, n, k + 1, b, r.ids)

\* setSubtreeWanted() that reports a file whether its flag differed or not
setSubtreeWantedAlwaysReports(t, n, b, ids) ==
    LET differs == t[n].is_wanted_ # b
        t1 == IF differs THEN [t EXCEPT ![n].is_wanted_ = b] ELSE t
        ids1 == IF t[n].file_index_ >= 0 THEN ids \cup {t[n].file_index_} ELSE ids
    IN SetWantedOfChildren(t1, n, 1, b, ids1)

\* setSubtreeWanted() that reports the file and forgets to store the flag
setSubtreeWantedNotStored(t, n, b, ids) ==
    LET differs == t[n].is_wanted_ # b
        ids1 == IF differs /\ t[n].file_index_ >= 0
                THEN ids \cup {t[n].file_index_} ELSE ids
    IN SetWantedOfChildren(t, n, 1, b, ids1)

\* setSubtreeWanted() that puts the item's priority back to normal with the flag
setSubtreeWantedResetsPriority(t, n, b, ids) ==
    LET differs == t[n].is_wanted_ # b
        t1 == IF differs
              THEN [t EXCEPT ![n].is_wanted_ = b, ![n].priority_ = TR_PRI_NORMAL] ELSE t
        ids1 == IF differs /\ t[n].file_index_ >= 0
                THEN ids \cup {t[n].file_index_} ELSE ids
    IN SetWantedOfChildren(t1, n, 1, b, ids1)

setSubtreeWanted(t, n, b, ids) ==
    LET differs == t[n].is_wanted_ # b
        t1 == IF differs THEN [t EXCEPT ![n].is_wanted_ = b] ELSE t
        ids1 == IF differs /\ t[n].file_index_ >= 0
                THEN ids \cup {t[n].file_index_} ELSE ids
    IN SetWantedOfChildren(t1, n, 1, b, ids1)

\* FileTreeItem::path
RECURSIVE PathUp(_, _, _)
PathUp(t, item, item_path) ==
    IF item # NullItem /\ t[item].name_ # <<>>
    THEN PathUp(t, t[item].parent_,
                IF item_path = <<>> THEN t[item].name_
                ELSE t[item].name_ \o <<Slash>> \o item_path)
    ELSE item_path

path(t, n) == PathUp(t, n, <<>>)

\* isComplete() that takes any have_size_ up to the total for complete
isCompleteUpTo(t, n) == t[n].have_size_ <= t[n].total_size_

\* FileTreeItem::isComplete
isComplete(t, n) == t[n].have_size_ = t[n].total_size_

\* ~FileTreeItem: the item leaves its parent's children_ and the arena; ok is
\* whether both assertions went through
RemoveAt(s, r) == SubSeq(s, 1, r) \o SubSeq(s, r + 2, Len(s))

\* delete: the item leaves the arena
freeItem(t, n, ok) ==
    [t |-> [m \in (DOMAIN t) \ {n} |-> t[m]], ok |-> ok]

\* a destructor that leaves the item in its parent's children_
eraseFromParentKeepsChild(rw, p, n) ==
    freeItem([rw.t EXCEPT
                ![p].child_rows_[rw.t[n].name_] = -1,
                ![p].first_unhashed_row_ = IF rw.i < 0 THEN SIZE_MAX ELSE rw.i],
             n, rw.t[n].children_ = <<>> /\ rw.ok)

\* the parent's part of ~FileTreeItem, rw being what row() gave
eraseFromParent(rw, p, n) ==
    freeItem([rw.t EXCEPT
                ![p].children_ = IF rw.i >= 0 /\ rw.i < Len(@)
                                 THEN RemoveAt(@, rw.i) ELSE @,
                ![p].child_rows_[rw.t[n].name_] = -1,
                ![p].first_unhashed_row_ = IF rw.i < 0 THEN SIZE_MAX ELSE rw.i],
             n, rw.t[n].children_ = <<>> /\ rw.ok)

destroyItem(t, n) ==
    IF t[n].parent_ = NullItem THEN freeItem(t, n, t[n].children_ = <<>>)
    ELSE eraseFromParent(row(t, n), t[n].parent_, n)


(* --------------------------- FileTreeModel ----------------------------- *)

\* new FileTreeItem: the arena's next free id
NewId(t) == CHOOSE id \in 1 .. (Cardinality(DOMAIN t) + 1) : id \notin DOMAIN t

NoIndex == [i \in FileIndices |-> NullItem]

\* FileTreeModel::findItemForFileIndex
findItemForFileIndex(cache, file_index) == cache[file_index]

\* the walk of addFile over the path's segments from `item` on: descend into
\* the child named by the segment, create and append it when there is none
\* (the last segment's as the file's leaf).  added: the last segment's item was
\* created; ok: every assertion on the way went through
RECURSIVE WalkPath(_, _, _, _, _, _, _)

\* item->appendChild(new FileTreeItem(...)) under the arena's id `id`
newChild(t, item, id, fresh) ==
    appendChild([m \in DOMAIN t \cup {id} |-> IF m = id THEN fresh ELSE t[m]], item, id)

\* one segment of the walk, c being what child() gave for it
WalkSegment(c, id, item, toks, k, file_index, total_size, ok) ==
    IF c.item = NullItem /\ ~c.ok
    THEN [t |-> c.t, item |-> NullItem, added |-> FALSE, ok |-> FALSE]
    ELSE IF c.item = NullItem /\ k = Len(toks)
    THEN [t |-> newChild(c.t, item, id, NewItem(toks[k], file_index, total_size)),
          item |-> id, added |-> TRUE, ok |-> ok]
    ELSE IF k = Len(toks)
    THEN [t |-> c.t, item |-> c.item, added |-> FALSE, ok |-> ok /\ c.ok]
    ELSE WalkPath(IF c.item = NullItem
                  THEN newChild(c.t, item, id, NewItem(toks[k], -1, 0)) ELSE c.t,
                  IF c.item = NullItem THEN id ELSE c.item,
                  toks, k + 1, file_index, total_size, ok /\ c.ok)

WalkPath(t, item, toks, k, file_index, total_size, ok) ==
    IF k > Len(toks) THEN [t |-> t, item |-> item, added |-> FALSE, ok |-> ok]
    ELSE WalkSegment(child(t, item, toks[k]), NewId(t), item, toks, k,
                     file_index, total_size, ok)

\* FileTreeModel::addFile
\* what addFile leaves: upd being what update() gave for the file's item
addFileResult(upd, cache, item, added, ok) ==
    [t |-> upd.t, cache |-> cache, item |-> item, added |-> added,
     changed |-> upd.changed, ok |-> ok /\ upd.ok]

\* addFile for a file index the cache does not know, w being what the walk gave
addFileWalked(w, cache, file_index, wanted, prio, have, torrent_changed) ==
    IF w.item = NullItem
    THEN [t |-> w.t, cache |-> cache, item |-> NullItem, added |-> FALSE,
          changed |-> <<-1, -1>>, ok |-> FALSE]
    ELSE addFileResult(update(w.t, w.item, w.t[w.item].name_, wanted, prio, have,
                              w.added \/ torrent_changed),
                       IF w.added THEN [cache EXCEPT ![file_index] = w.item] ELSE cache,
                       w.item, w.added, w.ok)

\* addFile for a file index the cache knows
addFileKnown(t, cache, known, tokens, wanted, prio, have, torrent_changed) ==
    addFileResult(update(t, known, tokens[Len(tokens)], wanted, prio, have,
                         torrent_changed),
                  cache, known, FALSE, TRUE)

addFile(t, cache, file_index, filename, wanted, prio, total_size, have, torrent_changed) ==
    IF findItemForFileIndex(cache, file_index) # NullItem
    THEN addFileKnown(t, cache, findItemForFileIndex(cache, file_index), Split(filename),
                      wanted, prio, have, torrent_changed)
    ELSE addFileWalked(WalkPath(t, Root, Split(filename), 1, file_index, total_size, TRUE),
                       cache, file_index, wanted, prio, have, torrent_changed)

\* FileTreeModel::clearSubtree: the children from the last row to the first,
\* then the item itself (the root stays)
RECURSIVE clearSubtree(_, _, _)
\* the rest of n's subtree once its last child was cleared, which gave r; a
\* child that did not leave children_ ends the loop
clearRest(r, n, before) ==
    IF r.t[n].children_ = before THEN [t |-> r.t, ok |-> FALSE]
    ELSE clearSubtree(r.t, n, r.ok)

destroyed(d, ok) == [t |-> d.t, ok |-> ok /\ d.ok]

clearSubtree(t, n, ok) ==
    IF t[n].children_ # <<>>
    THEN clearRest(clearSubtree(t, t[n].children_[childCount(t, n)], ok), n,
                   t[n].children_)
    ELSE IF n = Root THEN [t |-> t, ok |-> ok]
    ELSE destroyed(destroyItem(t, n), ok)

\* FileTreeModel::clear
cleared(r) == [t |-> r.t, cache |-> NoIndex, ok |-> r.ok]

clear(t) == cleared(clearSubtree(t, Root, TRUE))

\* FileTreeModel::setWanted over the selected items
RECURSIVE setWanted(_, _, _, _)
setWantedRest(r, sel, wanted) == setWanted(r.t, sel, wanted, r.ids)

\* setWanted that takes an index without an item of the tree for the root's
setWantedStaleIsRoot(t, sel, wanted, ids) ==
    IF sel = {} THEN [t |-> t, ids |-> ids]
    ELSE setWantedRest(setSubtreeWanted(t, IF MinOf(sel) \in DOMAIN t THEN MinOf(sel)
                                           ELSE Root, wanted, ids),
                       sel \ {MinOf(sel)}, wanted)

\* an index whose item is not in the tree is passed over
setWanted(t, sel, wanted, ids) ==
    IF sel = {} THEN [t |-> t, ids |-> ids]
    ELSE IF MinOf(sel) \notin DOMAIN t THEN setWanted(t, sel \ {MinOf(sel)}, wanted, ids)
    ELSE setWantedRest(setSubtreeWanted(t, MinOf(sel), wanted, ids),
                       sel \ {MinOf(sel)}, wanted)

\* FileTreeModel::setPriority over the selected items
RECURSIVE setPriority(_, _, _, _)
setPriorityRest(r, sel, prio) == setPriority(r.t, sel, prio, r.ids)

\* an index whose item is not in the tree is passed over
setPriority(t, sel, prio, ids) ==
    IF sel = {} THEN [t |-> t, ids |-> ids]
    ELSE IF MinOf(sel) \notin DOMAIN t THEN setPriority(t, sel \ {MinOf(sel)}, prio, ids)
    ELSE setPriorityRest(setSubtreePriority(t, MinOf(sel), prio, ids),
                         sel \ {MinOf(sel)}, prio)

\* FileTreeModel::openFile: whether the item is a complete file, and the path
\* openRequested carries (none when it is not emitted)
openFile(t, n) ==
    IF n \notin DOMAIN t THEN [opened |-> FALSE, request |-> <<>>]
    ELSE IF t[n].file_index_ < 0 \/ ~isComplete(t, n)
    THEN [opened |-> FALSE, request |-> <<>>]
    ELSE [opened |-> TRUE, request |-> path(t, n)]


(* ------------------- the snapshots and the selections ------------------ *)

ChildrenOf(t, n) == {t[n].children_[k] : k \in 1 .. childCount(t, n)}

\* the segment sequences a snapshot's paths are made of
PathTokens == UNION {[1 .. d -> Names] : d \in 1 .. MaxDepth}

\* a file the tree does not hold yet has a path no file of the tree has and
\* that runs through no file of the tree
RECURSIVE FreshPathOk(_, _, _, _)
FreshPathOk(t, n, toks, k) ==
    LET cs == {c \in ChildrenOf(t, n) : t[c].name_ = toks[k]} IN
    IF k = Len(toks) THEN cs = {}
    ELSE \A c \in cs : t[c].file_index_ = -1 /\ FreshPathOk(t, c, toks, k + 1)

\* the paths a snapshot may report for file_index: a file of the tree keeps its
\* directory and keeps its name or, when `renames`, takes one none of its
\* siblings has
SnapshotPaths(t, cache, file_index, renames) ==
    LET n == cache[file_index] IN
    IF n = NullItem
    THEN {Join(toks) : toks \in {x \in PathTokens : FreshPathOk(t, Root, x, 1)}}
    ELSE LET p == t[n].parent_
             taken == {t[c].name_ : c \in ChildrenOf(t, p) \ {n}}
             dir == path(t, p)
             free == IF renames THEN Names \ taken ELSE {t[n].name_}
         IN {IF dir = <<>> THEN nm ELSE dir \o <<Slash>> \o nm : nm \in free}

\* the sizes a snapshot may report for file_index: a file of the tree keeps the
\* size it was created with
SnapshotSizes(t, cache, file_index, S) ==
    IF cache[file_index] = NullItem THEN S
    ELSE {sz \in S : sz = t[cache[file_index]].total_size_}

\* the items a view can select: every item but the root
Selections(t) ==
    {sel \in SUBSET ((DOMAIN t) \ {Root}) : sel # {} /\ Cardinality(sel) <= MaxSel}

(* ---------------------------- the machine ------------------------------ *)

\* no call yet: nothing returned, no arguments
NoCall ==
    [ op |-> "none", ok |-> TRUE, ids |-> {}, changed |-> <<-1, -1>>,
      added |-> FALSE, index |-> -1, filename |-> <<>>, wanted |-> FALSE,
      priority |-> TR_PRI_NORMAL, size |-> 0, have |-> 0,
      torrent_changed |-> FALSE, item |-> NullItem, opened |-> FALSE,
      request |-> <<>>, stale |-> FALSE, updated |-> FALSE, scheduled |-> FALSE ]

\* DetailsDialog as constructed: no torrent selected, no refresh pending, the
\* tabs enabled; and a TorrentModel without torrents
NoDialog ==
    [ ids_ |-> {}, changed_torrents_ |-> FALSE, have_pending_refresh_ |-> FALSE,
      enabled |-> TRUE, timers |-> 0, torrents |-> {} ]

Init ==
    /\ items = [n \in {Root} |-> NewItem(<<>>, -1, 0)]
    /\ index_cache = NoIndex
    /\ last = NoCall
    /\ dialog = NoDialog

\* what `last` keeps of an addFile call: what it returned and, when `args`,
\* the entry it was given
AddFileCall(r, i, p, w, pr, sz, hv, tc, args) ==
    LET ret == [NoCall EXCEPT !.op = "addFile", !.ok = r.ok, !.changed = r.changed,
                              !.added = r.added]
    IN IF args
       THEN [ret EXCEPT !.index = i, !.filename = p, !.wanted = w, !.priority = pr,
                        !.size = sz, !.have = hv, !.torrent_changed = tc]
       ELSE ret

\* FileTreeModel::addFile for one entry of a snapshot, its fields drawn from
\* the given sets and its path from PathsOf[file index]
AddFileOver(I, W, P, S, H, TC, PathsOf, args) ==
    /\ last.ok
    /\ UNCHANGED dialog
    /\ \E i \in I, w \in W, pr \in P, tc \in TC :
         \E sz \in SnapshotSizes(items, index_cache, i, S) :
         \E hv \in {h \in H : h <= sz}, p \in PathsOf[i] :
            \E r \in {addFile(items, index_cache, i, p, w, pr, sz, hv, tc)} :
            /\ items' = r.t
            /\ index_cache' = r.cache
            /\ last' = AddFileCall(r, i, p, w, pr, sz, hv, tc, args)

\* FileTreeModel::clear
Clear ==
    /\ last.ok
    /\ UNCHANGED dialog
    /\ \E r \in {clear(items)} :
       /\ items' = r.t
       /\ index_cache' = r.cache
       /\ last' = [NoCall EXCEPT !.op = "clear", !.ok = r.ok]

\* FileTreeModel::setWanted
SetWanted ==
    /\ last.ok
    /\ UNCHANGED dialog
    /\ \E sel \in Selections(items), w \in BOOLEAN :
         \E r \in {setWanted(items, sel, w, {})} :
         /\ items' = r.t
         /\ last' = [NoCall EXCEPT !.op = "setWanted", !.ids = r.ids]
         /\ UNCHANGED index_cache

\* FileTreeModel::setPriority
SetPriority ==
    /\ last.ok
    /\ UNCHANGED dialog
    /\ \E sel \in Selections(items), pr \in Priorities :
         \E r \in {setPriority(items, sel, pr, {})} :
         /\ items' = r.t
         /\ last' = [NoCall EXCEPT !.op = "setPriority", !.ids = r.ids]
         /\ UNCHANGED index_cache

(* Spec: the files of one torrent, whose paths stay as they are, refreshed  *)
(* by snapshots and edited through the view; `last` keeps what the calls   *)
(* returned.                                                               *)

\* the path of file i of the torrent: a/a, a/b, then b, bc, bcc, ... beside a
TorrentPath(i) ==
    IF i = 0 THEN <<"a", Slash, "a">>
    ELSE IF i = 1 THEN <<"a", Slash, "b">>
    ELSE <<"b">> \o [k \in 1 .. (i - 2) |-> "c"]

TorrentPaths(i) == {TorrentPath(i)}

AddFile ==
    AddFileOver(0 .. (MaxTorrentFiles - 1), BOOLEAN, Priorities, 1 .. MaxSize, 0 .. MaxSize,
                BOOLEAN, [i \in 0 .. (MaxTorrentFiles - 1) |-> TorrentPaths(i)], FALSE)

Next == AddFile \/ Clear \/ SetWanted \/ SetPriority

Spec == Init /\ [][Next]_vars

(* SpecUpdate: the first file of the torrent alone, refreshed and edited;   *)
(* `last` keeps the entry addFile was given.                               *)

UpdateFile ==
    AddFileOver({0}, BOOLEAN, Priorities, 1 .. MaxSize, 0 .. MaxSize,
                BOOLEAN, [i \in {0} |-> TorrentPaths(i)], TRUE)

NextUpdate == UpdateFile \/ Clear \/ SetWanted \/ SetPriority

SpecUpdate == Init /\ [][NextUpdate]_vars

(* SpecNames: snapshots that add files at any path and rename files, and    *)
(* clear; the files' other fields stay as first reported.                  *)

RenamedPaths(i) == SnapshotPaths(items, index_cache, i, TRUE)

AddOrRenameFile ==
    AddFileOver(FileIndices, {TRUE}, {TR_PRI_NORMAL}, {1}, {0}, {FALSE},
                [i \in FileIndices |-> RenamedPaths(i)], TRUE)

NextNames == AddOrRenameFile \/ Clear

SpecNames == Init /\ [][NextNames]_vars

(* SpecView: the torrent of Spec, with a view whose indices may refer to    *)
(* items the tree does not hold (any more): the selections are drawn from   *)
(* all the item ids the torrent's tree can use.  `last` keeps whether none  *)
(* of the selected items is in the tree.                                   *)

\* the ids of the items of the torrent's tree: its files and the directory a
ItemIds == 1 .. (MaxTorrentFiles + 1)

ViewSelections == {sel \in SUBSET ItemIds : sel # {} /\ Cardinality(sel) <= MaxSel}

AddFileView ==
    AddFileOver(0 .. (MaxTorrentFiles - 1), BOOLEAN, {TR_PRI_NORMAL}, 1 .. MaxSize,
                0 .. MaxSize, {FALSE},
                [i \in 0 .. (MaxTorrentFiles - 1) |-> TorrentPaths(i)], FALSE)

SetWantedView ==
    /\ last.ok
    /\ UNCHANGED dialog
    /\ \E sel \in ViewSelections, w \in BOOLEAN :
         \E r \in {setWanted(items, sel, w, {})} :
         /\ items' = r.t
         /\ last' = [NoCall EXCEPT !.op = "setWanted", !.ids = r.ids, !.wanted = w,
                                   !.stale = (sel \cap DOMAIN items = {})]
         /\ UNCHANGED index_cache

SetPriorityView ==
    /\ last.ok
    /\ UNCHANGED dialog
    /\ \E sel \in ViewSelections, pr \in Priorities :
         \E r \in {setPriority(items, sel, pr, {})} :
         /\ items' = r.t
         /\ last' = [NoCall EXCEPT !.op = "setPriority", !.ids = r.ids,
                                   !.stale = (sel \cap DOMAIN items = {})]
         /\ UNCHANGED index_cache

\* FileTreeModel::openFile
OpenFile ==
    /\ last.ok
    /\ UNCHANGED dialog
    /\ \E n \in ItemIds :
         \E r \in {openFile(items, n)} :
         /\ last' = [NoCall EXCEPT !.op = "openFile", !.item = n, !.opened = r.opened,
                                   !.request = r.request,
                                   !.stale = (n \notin DOMAIN items)]
         /\ UNCHANGED <<items, index_cache>>

NextView == AddFileView \/ Clear \/ SetWantedView \/ SetPriorityView \/ OpenFile

SpecView == Init /\ [][NextView]_vars

(* SpecItem: one directory, the root, used through FileTreeItem alone: its  *)
(* children are appended, deleted and renamed in any order, with lookups by *)
(* name and by row in between or not.  The names stay unique among the      *)
(* children, as appendChild's callers see to.                               *)

\* the names no child of the directory n has, but for the child c itself
FreeNames(t, n, c) == Names \ {t[x].name_ : x \in ChildrenOf(t, n) \ {c}}

\* FileTreeItem::appendChild(new FileTreeItem(name))
AppendChild ==
    /\ last.ok
    /\ UNCHANGED dialog
    /\ \E nm \in FreeNames(items, Root, NullItem) :
         /\ items' = newChild(items, Root, NewId(items), NewItem(nm, -1, 0))
         /\ last' = [NoCall EXCEPT !.op = "appendChild", !.filename = nm]
    /\ UNCHANGED index_cache

\* delete child
DeleteChild ==
    /\ last.ok
    /\ UNCHANGED dialog
    /\ \E c \in ChildrenOf(items, Root) :
         \E r \in {destroyItem(items, c)} :
         /\ items' = r.t
         /\ last' = [NoCall EXCEPT !.op = "delete", !.ok = r.ok, !.item = c]
    /\ UNCHANGED index_cache

\* FileTreeItem::update with another name
RenameChild ==
    /\ last.ok
    /\ UNCHANGED dialog
    /\ \E c \in ChildrenOf(items, Root) :
         \E nm \in FreeNames(items, Root, c) \ {items[c].name_} :
         \E r \in {update(items, c, nm, FALSE, TR_PRI_NORMAL, 0, FALSE)} :
         /\ items' = r.t
         /\ last' = [NoCall EXCEPT !.op = "update", !.ok = r.ok, !.item = c,
                                   !.changed = r.changed, !.filename = nm]
    /\ UNCHANGED index_cache

\* FileTreeItem::child(name)
LookupChild ==
    /\ last.ok
    /\ UNCHANGED dialog
    /\ \E nm \in Names :
         \E r \in {child(items, Root, nm)} :
         /\ items' = r.t
         /\ last' = [NoCall EXCEPT !.op = "child", !.ok = r.ok, !.item = r.item,
                                   !.filename = nm]
    /\ UNCHANGED index_cache

\* FileTreeItem::row
LookupRow ==
    /\ last.ok
    /\ UNCHANGED dialog
    /\ \E c \in ChildrenOf(items, Root) :
         \E r \in {row(items, c)} :
         /\ items' = r.t
         /\ last' = [NoCall EXCEPT !.op = "row", !.ok = r.ok, !.item = c, !.index = r.i]
    /\ UNCHANGED index_cache

NextItem == AppendChild \/ DeleteChild \/ RenameChild \/ LookupChild \/ LookupRow

SpecItem == Init /\ [][NextItem]_vars


(* SpecSizes: the first file of the torrent, refreshed by snapshots that    *)
(* may report another size for it than the one it was created with, and     *)
(* edited through the view; `last` keeps the entry addFile was given.       *)

\* the sizes a snapshot reports
ReportedSizes == 1 .. (MaxSize + 1)

AddFileResized ==
    /\ last.ok
    /\ UNCHANGED dialog
    /\ \E i \in {0}, w \in BOOLEAN, tc \in BOOLEAN :
         \E sz \in ReportedSizes :
         \E hv \in {h \in 0 .. MaxSize : h <= sz} :
            \E r \in {addFile(items, index_cache, i, TorrentPath(i), w, TR_PRI_NORMAL,
                              sz, hv, tc)} :
            /\ items' = r.t
            /\ index_cache' = r.cache
            /\ last' = AddFileCall(r, i, TorrentPath(i), w, TR_PRI_NORMAL, sz, hv, tc, TRUE)

NextSizes == AddFileResized \/ Clear \/ SetWanted \/ SetPriority

SpecSizes == Init /\ [][NextSizes]_vars

(* SpecPaths: snapshots whose files may have any paths but the path of     *)
(* another file, a path that runs through another file's path included,     *)
(* and clear; the files' other fields stay as first reported.               *)

\* the paths of the files the tree holds
FilePaths(t) == {path(t, n) : n \in {m \in DOMAIN t : t[m].file_index_ >= 0}}

\* a file the tree holds keeps its path, a new file has any path no file of
\* the tree has
AnyPaths(i) ==
    IF index_cache[i] # NullItem THEN {path(items, index_cache[i])}
    ELSE {Join(toks) : toks \in PathTokens} \ FilePaths(items)

AddFileAnywhere ==
    AddFileOver(FileIndices, {TRUE}, {TR_PRI_NORMAL}, {1}, {0}, {FALSE},
                [i \in FileIndices |-> AnyPaths(i)], TRUE)

NextPaths == AddFileAnywhere \/ Clear

SpecPaths == Init /\ [][NextPaths]_vars


(* --------------------------- DetailsDialog ----------------------------- *)

\* the torrents the session may hold
MaxTorrents == 2
\* the single-shot timers that may wait at once
MaxTimers == 2

TorrentIds == 1 .. MaxTorrents

\* the one file of the torrent id, as Torrent::files() lists it
TorrentFilePath(id) == IF id = 1 THEN <<"a">> ELSE <<"b">>

\* DetailsDialog::setEnabled
setEnabled(d, enabled) == [d EXCEPT !.enabled = enabled]

\* setIds once filesView->clear() gave c
setIdsCleared(c, d, ids) ==
    [t |-> c.t, cache |-> c.cache,
     d |-> [setEnabled(d, FALSE) EXCEPT !.ids_ = ids, !.changed_torrents_ = TRUE],
     ok |-> c.ok]

\* DetailsDialog::setIds; the requests to the session (refreshDetailInfo, and
\* refreshExtraStats from onTimer -> getNewData) change nothing of the dialog
setIds(t, cache, d, ids) ==
    IF ids # d.ids_ THEN setIdsCleared(clear(t), d, ids)
    ELSE [t |-> t, cache |-> cache, d |-> d, ok |-> TRUE]

\* onTorrentsChanged that schedules a refresh whether one is pending or not
onTorrentsChangedAlways(d, ids) ==
    IF ids \cap d.ids_ = {} THEN d
    ELSE [d EXCEPT !.have_pending_refresh_ = TRUE, !.timers = @ + 1]

\* DetailsDialog::onTorrentsChanged
onTorrentsChanged(d, ids) ==
    IF d.have_pending_refresh_ THEN d
    ELSE IF ids \cap d.ids_ = {} THEN d
    ELSE [d EXCEPT !.have_pending_refresh_ = TRUE, !.timers = @ + 1]

\* the end of refresh() that leaves changed_torrents_ as it is
refreshDoneKeepsChanged(d) ==
    setEnabled([d EXCEPT !.have_pending_refresh_ = FALSE], TRUE)

\* the end of refresh(): changed_torrents_ = false; have_pending_refresh_ =
\* false; setEnabled(true)
refreshDone(d) ==
    setEnabled([d EXCEPT !.changed_torrents_ = FALSE, !.have_pending_refresh_ = FALSE],
               TRUE)

\* refresh() of a selection that is not a single torrent, c being what
\* filesView->clear() gave
refreshCleared(c, d) ==
    [t |-> c.t, cache |-> c.cache, d |-> refreshDone(d), ok |-> c.ok,
     updated |-> FALSE, flag |-> FALSE]

\* refresh() of a single torrent, r being what filesView->update() gave for
\* the torrent's file
refreshUpdated(r, d) ==
    [t |-> r.t, cache |-> r.cache, d |-> refreshDone(d), ok |-> r.ok,
     updated |-> TRUE, flag |-> d.changed_torrents_]

\* DetailsDialog::refresh, hv being the bytes the torrent's file has by now.
\* torrents: the selected ids getTorrentFromId finds; torrents[0] of an empty
\* list is a read outside the list, after which nothing is known to hold
refresh(t, cache, d, hv) ==
    IF Cardinality(d.ids_) # 1 THEN refreshCleared(clear(t), d)
    ELSE IF d.ids_ \cap d.torrents = {}
    THEN [t |-> t, cache |-> cache, d |-> d, ok |-> FALSE, updated |-> FALSE,
          flag |-> d.changed_torrents_]
    ELSE refreshUpdated(addFile(t, cache, 0, TorrentFilePath(MinOf(d.ids_)), TRUE,
                                TR_PRI_NORMAL, 1, hv, d.changed_torrents_), d)

(* SpecDialog: the details dialog over its file tree: the window selects    *)
(* torrents of the list, the torrent model reports changed torrents, gains  *)
(* and loses torrents, and the single-shot timer calls refresh().           *)

\* MainWindow hands the dialog the torrents selected in the list
SetIds ==
    /\ last.ok
    /\ \E ids \in SUBSET dialog.torrents :
         \E r \in {setIds(items, index_cache, dialog, ids)} :
         /\ items' = r.t
         /\ index_cache' = r.cache
         /\ dialog' = r.d
         /\ last' = [NoCall EXCEPT !.op = "setIds", !.ok = r.ok]

\* TorrentModel::torrentsChanged with the ids of `Changed`
TorrentsChangedOf(Changed) ==
    /\ last.ok
    /\ \E ids \in Changed :
         \E d \in {onTorrentsChanged(dialog, ids)} :
         /\ d.timers <= MaxTimers
         /\ dialog' = d
         /\ last' = [NoCall EXCEPT !.op = "onTorrentsChanged",
                                   !.scheduled = d.timers > dialog.timers]
    /\ UNCHANGED <<items, index_cache>>

\* TorrentModel::torrentsChanged for some torrents of the model
OnTorrentsChanged == TorrentsChangedOf((SUBSET dialog.torrents) \ {{}})

\* torrentsChanged for torrents of which one is selected in the dialog
OnSelectedChanged ==
    TorrentsChangedOf({ids \in (SUBSET dialog.torrents) \ {{}} : ids \cap dialog.ids_ # {}})

\* the single-shot timer of onTorrentsChanged calls refresh()
Refresh ==
    /\ last.ok
    /\ dialog.timers > 0
    /\ \E hv \in 0 .. MaxSize :
         \E r \in {refresh(items, index_cache, dialog, hv)} :
         /\ items' = r.t
         /\ index_cache' = r.cache
         /\ dialog' = [r.d EXCEPT !.timers = @ - 1]
         /\ last' = [NoCall EXCEPT !.op = "refresh", !.ok = r.ok, !.updated = r.updated,
                                   !.torrent_changed = r.flag, !.have = hv]

\* Session::torrentsUpdated -> TorrentModel::updateTorrents with a new torrent
AddTorrent ==
    /\ last.ok
    /\ \E id \in TorrentIds \ dialog.torrents :
         /\ dialog' = [dialog EXCEPT !.torrents = @ \cup {id}]
         /\ last' = [NoCall EXCEPT !.op = "addTorrent"]
    /\ UNCHANGED <<items, index_cache>>

\* Session::torrentsRemoved -> TorrentModel::removeTorrents
RemoveTorrent ==
    /\ last.ok
    /\ \E id \in dialog.torrents :
         /\ dialog' = [dialog EXCEPT !.torrents = @ \ {id}]
         /\ last' = [NoCall EXCEPT !.op = "removeTorrent"]
    /\ UNCHANGED <<items, index_cache>>

NextDialog == SetIds \/ OnTorrentsChanged \/ Refresh \/ AddTorrent \/ RemoveTorrent

SpecDialog == Init /\ [][NextDialog]_vars

(* SpecDialogLive: the dialog with a session that loses no torrent and      *)
(* keeps reporting changes of the selected torrents, and a timer that fires *)

NextDialogLive == SetIds \/ OnTorrentsChanged \/ Refresh \/ AddTorrent

SpecDialogLive ==
    Init /\ [][NextDialogLive]_vars /\ WF_vars(OnSelectedChanged) /\ WF_vars(Refresh)


(* ------------------------------ claims --------------------------------- *)

\* the item n and every item below it, by the children_ lists
RECURSIVE Subtree(_, _)
Subtree(t, n) == {n} \cup UNION {Subtree(t, c) : c \in ChildrenOf(t, n)}

\* the files (leaves) in the subtree of n
LeavesUnder(t, n) == {m \in Subtree(t, n) : t[m].file_index_ >= 0}

\* the files in the subtrees of the selected items
LeavesOfSelection(t, sel) == UNION {LeavesUnder(t, n) : n \in sel}

\* the strict ancestors of n
RECURSIVE Ancestors(_, _)
Ancestors(t, n) ==
    IF t[n].parent_ = NullItem THEN {}
    ELSE {t[n].parent_} \cup Ancestors(t, t[n].parent_)

RECURSIVE SumOver(_, _)
SumOver(f, S) ==
    IF S = {} THEN 0
    ELSE LET x == CHOOSE y \in S : TRUE IN f[x] + SumOver(f, S \ {x})

WantedLeavesUnder(t, n) == {m \in LeavesUnder(t, n) : t[m].is_wanted_}

\* C1: every directory's size() is the sum of total_size_ over the wanted files
\* below it, and the have part of getSubtreeWantedSize() is the sum of their
\* have_size_
C1_Aggregation ==
    \A n \in DOMAIN items :
        items[n].children_ # <<>> =>
            /\ size(items, n) =
                   SumOver([m \in DOMAIN items |-> items[m].total_size_],
                           WantedLeavesUnder(items, n))
            /\ getSubtreeWantedSize(items, n, <<0, 0>>)[1] =
                   SumOver([m \in DOMAIN items |-> items[m].have_size_],
                           WantedLeavesUnder(items, n))

\* a directory with a wanted and an unwanted file below it, after an edit
C1_Witness ==
    /\ last.op = "setWanted"
    /\ \E n \in DOMAIN items :
          /\ items[n].children_ # <<>>
          /\ \E x, y \in LeavesUnder(items, n) :
                items[x].is_wanted_ /\ ~items[y].is_wanted_
                /\ items[x].have_size_ > 0 /\ items[y].have_size_ > 0
                /\ items[n].is_wanted_
          /\ size(items, n) = 1

\* C2: an item with files below it reports Checked when all of them are wanted,
\* Unchecked when none is, and PartiallyChecked when two of them differ, and then
\* so does every ancestor of the item
C2_TriState ==
    \A n \in DOMAIN items :
        LET L == LeavesUnder(items, n) IN
        L # {} =>
            /\ (\A m \in L : items[m].is_wanted_) => isSubtreeWanted(items, n) = Checked
            /\ (\A m \in L : ~items[m].is_wanted_) => isSubtreeWanted(items, n) = Unchecked
            /\ (\E x, y \in L : items[x].is_wanted_ # items[y].is_wanted_) =>
                   \A a \in {n} \cup Ancestors(items, n) :
                       isSubtreeWanted(items, a) = PartiallyChecked

\* a directory below the root whose files differ
C2_Witness ==
    \E n \in DOMAIN items \ {Root} :
        /\ \E x, y \in LeavesUnder(items, n) : items[x].is_wanted_ # items[y].is_wanted_
        /\ isSubtreeWanted(items, Root) = PartiallyChecked

\* the bit of a priority, as the specification names them
BitOfPriority(p) ==
    CASE p = TR_PRI_LOW -> LOW
      [] p = TR_PRI_NORMAL -> NORMAL
      [] p = TR_PRI_HIGH -> HIGH

\* C3: a directory's priority() is the union of the priority bits of the files
\* below it, wanted or not, and it reads "Mixed" exactly when more than one bit
\* is set
C3_PriorityMask ==
    \A n \in DOMAIN items :
        items[n].children_ # <<>> =>
            /\ priority(items, n) =
                   {BitOfPriority(items[m].priority_) : m \in LeavesUnder(items, n)}
            /\ priorityString(items, n) = "Mixed"
                   <=> Cardinality(priority(items, n)) > 1

\* a directory with an unwanted low file and a wanted high file
C3_Witness ==
    \E n \in DOMAIN items :
        /\ items[n].children_ # <<>>
        /\ \E x, y \in LeavesUnder(items, n) :
              /\ items[x].priority_ = TR_PRI_LOW /\ ~items[x].is_wanted_
              /\ items[y].priority_ = TR_PRI_HIGH /\ items[y].is_wanted_
        /\ priorityString(items, n) = "Mixed"
        /\ items[n].priority_ = TR_PRI_NORMAL

\* C4: setWanted returns the file indices of exactly the files below the
\* selected items whose flag differed from the value, never -1, and leaves every
\* file below the selected items with the value
C4_SetWantedReturns ==
    \A sel \in Selections(items), v \in BOOLEAN :
        LET r == setWanted(items, sel, v, {})
            L == LeavesOfSelection(items, sel)
        IN /\ r.ids = {items[m].file_index_ : m \in {x \in L : items[x].is_wanted_ # v}}
           /\ -1 \notin r.ids
           /\ \A m \in L : r.t[m].is_wanted_ = v

\* a call returned one file of two that now both hold the same flag
C4_Witness ==
    /\ last.op = "setWanted"
    /\ Cardinality(last.ids) = 1
    /\ Cardinality(LeavesUnder(items, Root)) = 2
    /\ \A x, y \in LeavesUnder(items, Root) : items[x].is_wanted_ = items[y].is_wanted_

\* C5 as stated: setWanted(X, true) returns a non-empty set the first time and
\* an empty set the second time, whatever X and the state
C5_FirstCallNonEmpty ==
    \A sel \in Selections(items) :
        LET r1 == setWanted(items, sel, TRUE, {})
            r2 == setWanted(r1.t, sel, TRUE, {})
        IN r1.ids # {} /\ r2.ids = {}

\* C5 amended: the first setWanted(X, true) returns a non-empty set exactly when
\* a file below X is not wanted yet, and the second returns the empty set
C5_SecondCallEmpty ==
    \A sel \in Selections(items) :
        LET r1 == setWanted(items, sel, TRUE, {})
            r2 == setWanted(r1.t, sel, TRUE, {})
        IN /\ r1.ids # {} <=> \E m \in LeavesOfSelection(items, sel) : ~items[m].is_wanted_
           /\ r2.ids = {}

\* a call that found every file wanted already, after one that did not
C5_Witness ==
    /\ last.op = "setWanted"
    /\ last.ids = {}
    /\ LeavesUnder(items, Root) # {}
    /\ \A m \in LeavesUnder(items, Root) : items[m].is_wanted_

\* C6: setPriority leaves every file below the selected items with the
\* priority, returns the file indices of exactly those whose reported priority
\* changed, and returns the empty set when repeated
C6_SetPriorityReturns ==
    \A sel \in Selections(items), p \in Priorities :
        LET r == setPriority(items, sel, p, {})
            L == LeavesOfSelection(items, sel)
        IN /\ \A m \in L : r.t[m].priority_ = p
           /\ r.ids = {items[m].file_index_ :
                          m \in {x \in L : priority(r.t, x) # priority(items, x)}}
           /\ \A m \in L : priority(items, m) = {BitOfPriority(p)}
                              => items[m].file_index_ \notin r.ids
           /\ setPriority(r.t, sel, p, {}).ids = {}

\* a call changed both files of the directory (the scenario: {0, 1})
C6_Witness ==
    /\ last.op = "setPriority"
    /\ last.ids = {0, 1}
    /\ \A m \in LeavesUnder(items, Root) : items[m].priority_ = TR_PRI_HIGH

\* the tree after k snapshots with torrent_changed = false that report
\* (w, pr, hv) for file i
RECURSIVE Refreshed(_, _, _, _, _, _, _)
Refreshed(t, cache, i, w, pr, hv, k) ==
    IF k = 0 THEN t
    ELSE Refreshed(addFile(t, cache, i, path(t, cache[i]), w, pr, MaxSize, hv, FALSE).t,
                   cache, i, w, pr, hv, k - 1)

\* C7: after a file is set unwanted (and to a priority) through the view, any
\* number of snapshots with torrent_changed = false that report it wanted (and
\* another priority) leave the local values, and the first snapshot with
\* torrent_changed = true sets the reported ones
C7_EditSurvivesRefresh ==
    \A i \in FileIndices :
        index_cache[i] # NullItem =>
            \A pr \in Priorities, q \in Priorities, hv \in 0 .. MaxSize,
               k \in 0 .. MaxRefreshes :
                LET n == index_cache[i]
                    e1 == setWanted(items, {n}, FALSE, {}).t
                    e2 == setPriority(e1, {n}, pr, {}).t
                    s == Refreshed(e2, index_cache, i, TRUE, q, hv, k)
                    f == addFile(s, index_cache, i, path(s, n), TRUE, q, MaxSize, hv,
                                 TRUE).t
                IN /\ ~s[n].is_wanted_ /\ s[n].priority_ = pr
                   /\ s[n].have_size_ = IF k = 0 THEN items[n].have_size_ ELSE hv
                   /\ f[n].is_wanted_ /\ f[n].priority_ = q

\* a routine snapshot reported the file wanted and at another priority, and the
\* file is still unwanted
C7_Witness ==
    /\ last.op = "addFile" /\ ~last.added /\ ~last.torrent_changed
    /\ last.wanted
    /\ index_cache[last.index] # NullItem
    /\ ~items[index_cache[last.index]].is_wanted_
    /\ items[index_cache[last.index]].priority_ # last.priority

\* C8: addFile's update of a file the tree holds sets have_size_ to the passed
\* value; with torrent_changed = false it leaves is_wanted_ and priority_ as they
\* were, with torrent_changed = true it sets them to the passed values
C8_UpdateFrame ==
    [][ (last'.op = "addFile" /\ index_cache[last'.index] # NullItem) =>
            LET n == index_cache[last'.index] IN
            /\ items'[n].have_size_ = last'.have
            /\ IF last'.torrent_changed
               THEN /\ items'[n].is_wanted_ = last'.wanted
                    /\ items'[n].priority_ = last'.priority
               ELSE /\ items'[n].is_wanted_ = items[n].is_wanted_
                    /\ items'[n].priority_ = items[n].priority_ ]_vars

\* a routine snapshot changed have_size_ alone though it reported another
\* wanted flag and another priority
C8_Witness ==
    /\ last.op = "addFile" /\ ~last.added /\ ~last.torrent_changed
    /\ last.changed = <<COL_PROGRESS, COL_PROGRESS>>
    /\ index_cache[last.index] # NullItem
    /\ items[index_cache[last.index]].is_wanted_ # last.wanted
    /\ items[index_cache[last.index]].priority_ # last.priority
    /\ items[index_cache[last.index]].have_size_ = last.have

\* C9: every file reachable from the root has exactly one entry of index_cache,
\* the one of its file index, and every entry refers to a file reachable from
\* the root
C9_IndexIntegrity ==
    LET files == LeavesUnder(items, Root) IN
    /\ \A m \in files :
          /\ Cardinality({i \in FileIndices : index_cache[i] = m}) = 1
          /\ items[m].file_index_ \in FileIndices
          /\ findItemForFileIndex(index_cache, items[m].file_index_) = m
    /\ \A i \in FileIndices : index_cache[i] # NullItem => index_cache[i] \in files

\* two files in the tree, one of them renamed by the last snapshot
C9_Witness ==
    /\ last.op = "addFile" /\ ~last.added
    /\ last.changed = <<COL_NAME, COL_NAME>>
    /\ Cardinality(LeavesUnder(items, Root)) >= 2

C11_ClearThenRebuild ==
    last.op = "clear" =>
        /\ items[Root].children_ = <<>>
        /\ DOMAIN items = {Root}
        /\ \A i \in FileIndices : findItemForFileIndex(index_cache, i) = NullItem
        /\ \A i \in FileIndices, p \in PathTokens :
              \A r \in {addFile(items, index_cache, i, Join(p), TRUE, TR_PRI_NORMAL,
                                1, 0, FALSE)} :
                  /\ r.ok /\ r.added
                  /\ r.item # NullItem
                  /\ path(r.t, r.item) = Join(p)
                  /\ r.t[r.item].file_index_ = i
                  /\ findItemForFileIndex(r.cache, i) = r.item
                  /\ LeavesUnder(r.t, Root) = {r.item}

\* C12: addFile removes and moves no item: every item is still there, with its
\* parent, its file index and its children at their rows (new ones after them);
\* only clear() takes items away
C12_AddFileKeepsItems ==
    [][ /\ last'.op = "addFile" =>
            \A n \in DOMAIN items :
                /\ n \in DOMAIN items'
                /\ items'[n].parent_ = items[n].parent_
                /\ items'[n].file_index_ = items[n].file_index_
                /\ childCount(items', n) >= childCount(items, n)
                /\ SubSeq(items'[n].children_, 1, childCount(items, n)) = items[n].children_
        /\ ~(DOMAIN items \subseteq DOMAIN items') => last'.op = "clear" ]_vars

\* an entry added a second child to a directory while the tree holds a file
\* the entry is not about
C12_Witness ==
    /\ last.op = "addFile" /\ last.added
    /\ \E n \in DOMAIN items : childCount(items, n) = 2
    /\ \E m \in LeavesUnder(items, Root) : items[m].file_index_ # last.index

C14_EffectiveSize ==
    \A n \in DOMAIN items :
        LET sizes == [m \in DOMAIN items |-> items[m].total_size_] IN
        /\ items[n].file_index_ >= 0 => size(items, n) = items[n].total_size_
        /\ items[n].children_ # <<>> =>
              /\ size(items, n) = SumOver(sizes, LeavesUnder(items, n))
                                     - SumOver(sizes, LeavesUnder(items, n)
                                                        \ WantedLeavesUnder(items, n))
              /\ (\E m \in LeavesUnder(items, n) : ~items[m].is_wanted_)
                     => size(items, n) < SumOver(sizes, LeavesUnder(items, n))

\* a file that is not wanted, of size 1, in a directory of size 0
C14_Witness ==
    \E m \in LeavesUnder(items, Root) :
        /\ ~items[m].is_wanted_
        /\ size(items, m) = 1
        /\ items[m].parent_ # Root
        /\ size(items, items[m].parent_) = 0
        /\ childCount(items, items[m].parent_) = 2

\* the columns of the fields of n that differ between the trees s and t
ModifiedColumns(s, t, n) ==
    (IF s[n].name_ # t[n].name_ THEN {COL_NAME} ELSE {})
    \cup (IF s[n].have_size_ # t[n].have_size_ THEN {COL_PROGRESS} ELSE {})
    \cup (IF s[n].is_wanted_ # t[n].is_wanted_ THEN {COL_WANTED} ELSE {})
    \cup (IF s[n].priority_ # t[n].priority_ THEN {COL_PRIORITY} ELSE {})

\* C15: update() of a file returns <<-1, -1>> exactly when it left the tree as
\* it was, and else the lowest and the highest column of the fields it
\* modified; a value equal to the stored one, and a wanted flag or priority
\* passed with update_fields = false, modify nothing and count for nothing
C15_ChangedColumns ==
    \A n \in LeavesUnder(items, Root) :
        \A nm \in Names \ {items[c].name_ : c \in ChildrenOf(items, items[n].parent_) \ {n}},
           w \in BOOLEAN, pr \in Priorities, hv \in 0 .. MaxSize, uf \in BOOLEAN :
            \A r \in {update(items, n, nm, w, pr, hv, uf)} :
                \A cols \in {ModifiedColumns(items, r.t, n)} :
                    /\ r.changed = <<-1, -1>> <=> r.t = items
                    /\ cols = {} <=> r.changed = <<-1, -1>>
                    /\ cols # {} => /\ r.changed[1] \in cols /\ r.changed[2] \in cols
                                    /\ \A c \in cols : r.changed[1] <= c /\ c <= r.changed[2]
                    /\ ~uf => cols \subseteq {COL_NAME, COL_PROGRESS}
                    /\ \A m \in DOMAIN items \ {n, items[n].parent_} : r.t[m] = items[m]

\* a routine snapshot that reported another wanted flag and another priority
\* and the stored have_size_ returned <<-1, -1>>
C15_Witness ==
    /\ last.op = "addFile" /\ ~last.added /\ ~last.torrent_changed
    /\ last.changed = <<-1, -1>>
    /\ index_cache[last.index] # NullItem
    /\ items[index_cache[last.index]].is_wanted_ # last.wanted
    /\ items[index_cache[last.index]].priority_ # last.priority

\* C16: openFile reports true, and requests the file's path to be opened, only
\* for a file whose have_size_ is its total_size_; for a directory and for an
\* incomplete file it reports false and requests nothing; isComplete() of a
\* file is have_size_ = total_size_
C16_OpenCompleteFile ==
    /\ \A n \in DOMAIN items :
          \A r \in {openFile(items, n)} :
              /\ r.opened <=> (items[n].file_index_ >= 0
                                /\ items[n].have_size_ = items[n].total_size_)
              /\ r.request = IF r.opened THEN path(items, n) ELSE <<>>
              /\ items[n].file_index_ >= 0 =>
                    (isComplete(items, n) <=> items[n].have_size_ = items[n].total_size_)
    /\ (last.op = "openFile" /\ last.item \in DOMAIN items) =>
          /\ last.opened <=> (items[last.item].file_index_ >= 0
                               /\ items[last.item].have_size_ = items[last.item].total_size_)
          /\ ~last.opened => last.request = <<>>

\* openFile refused a file that is not complete
C16_Witness ==
    /\ last.op = "openFile" /\ ~last.opened /\ last.request = <<>>
    /\ last.item \in DOMAIN items
    /\ items[last.item].file_index_ >= 0
    /\ items[last.item].have_size_ < items[last.item].total_size_

\* C17: setWanted, setPriority and openFile called with indices none of whose
\* items is in the tree change nothing, report no file index (openFile reports
\* false) and do not fail
C17_StaleSelection ==
    [][ last'.stale =>
            /\ items' = items
            /\ index_cache' = index_cache
            /\ last'.ok
            /\ last'.ids = {}
            /\ ~last'.opened /\ last'.request = <<>> ]_vars

\* setWanted(true) was called for an item that is not in the tree while the
\* tree holds a file that is not wanted
C17_Witness ==
    /\ last.op = "setWanted" /\ last.stale /\ last.wanted
    /\ \E x \in LeavesUnder(items, Root) : ~items[x].is_wanted_

\* the children of n named nm
ChildrenNamed(t, n, nm) == {c \in ChildrenOf(t, n) : t[c].name_ = nm}

\* C18: whatever appends, deletions, renames and lookups came before, child(name)
\* returns the child of that name (nullptr when there is none), row() of the
\* child at row i returns i, and no assertion of theirs fails
C18_LookupsAgree ==
    /\ last.ok
    /\ \A nm \in Names :
          \A r \in {child(items, Root, nm)} :
              /\ r.ok
              /\ IF ChildrenNamed(items, Root, nm) = {} THEN r.item = NullItem
                 ELSE r.item \in ChildrenNamed(items, Root, nm)
    /\ \A k \in 1 .. childCount(items, Root) :
          \A r \in {row(items, items[Root].children_[k])} : r.ok /\ r.i = k - 1
    /\ row(items, Root).i = -1

\* C19: once update() has renamed a file from A to B, child(B) of the parent
\* returns the file, at the row it had, child(A) returns nullptr without a
\* failed assertion, and index_cache still resolves the file index to the file
C19_RenameResolves ==
    [][ (/\ last'.op = "addFile" /\ ~last'.added
         /\ index_cache[last'.index] # NullItem
         /\ items'[index_cache[last'.index]].name_ # items[index_cache[last'.index]].name_) =>
            LET n == index_cache[last'.index]
                p == items[n].parent_
            IN /\ last'.ok
               /\ \A r \in {child(items', p, items'[n].name_)} : r.ok /\ r.item = n
               /\ items'[p].children_ = items[p].children_
               /\ \A r \in {child(items', p, items[n].name_)} : r.ok /\ r.item = NullItem
               /\ findItemForFileIndex(index_cache', last'.index) = n ]_vars

\* the path of the item n and of its ancestors, toks being n's path's segments
RECURSIVE PathsUpAre(_, _, _)
PathsUpAre(t, n, toks) ==
    IF toks = <<>> THEN n = Root
    ELSE /\ n # NullItem /\ n # Root
         /\ path(t, n) = Join(toks)
         /\ PathsUpAre(t, t[n].parent_, SubSeq(toks, 1, Len(toks) - 1))

\* C20: path() of a file that addFile has just created is the path the entry
\* gave, and path() of each directory above it is that path up to the
\* directory's segment
C20_PathRoundTrip ==
    [][ (last'.op = "addFile" /\ last'.added) =>
            /\ index_cache'[last'.index] # NullItem
            /\ PathsUpAre(items', index_cache'[last'.index], Split(last'.filename)) ]_vars

\* the row of the child c among the children of n, -1 when it is none of them
RowIn(t, n, c) ==
    IF \E k \in 1 .. childCount(t, n) : t[n].children_[k] = c
    THEN (CHOOSE k \in 1 .. childCount(t, n) : t[n].children_[k] = c) - 1
    ELSE -1

\* C21: when the child at row p is deleted, no assertion of the destructor
\* fails, the parent's first_unhashed_row_ becomes p, the siblings keep their
\* order, child(name of the deleted child) returns nullptr, and child(name)
\* of every remaining sibling returns that sibling
C21_RemovalResetsRows ==
    [][ last'.op = "delete" =>
          \A p \in {RowIn(items, Root, last'.item)} :
            /\ last'.ok
            /\ items'[Root].first_unhashed_row_ = p
            /\ items'[Root].children_ = RemoveAt(items[Root].children_, p)
            /\ \A r \in {child(items', Root, items[last'.item].name_)} :
                  r.ok /\ r.item = NullItem
            /\ \A k \in 1 .. childCount(items', Root) :
                  \A r \in {child(items', Root, items'[items'[Root].children_[k]].name_)} :
                     r.ok /\ r.item = items'[Root].children_[k] ]_vars

\* C22: in every directory first_unhashed_row_ is at most the number of
\* children, and every row below it is in child_rows_ under the name of the
\* child at that row
C22_HashedBelowWatermark ==
    last.ok =>
      \A n \in DOMAIN items :
        /\ items[n].first_unhashed_row_ <= childCount(items, n)
        /\ \A r \in 0 .. (items[n].first_unhashed_row_ - 1) :
              /\ r < childCount(items, n)
              /\ RowsValue(items[n].child_rows_, items[items[n].children_[r + 1]].name_) = r

C24_LeafOrDirectory ==
    \A n \in DOMAIN items :
        /\ items[n].file_index_ >= 0 => items[n].children_ = <<>>
        /\ items[n].children_ # <<>> => items[n].file_index_ = -1
        /\ n # Root => (items[n].children_ = <<>> <=> items[n].file_index_ # -1)

\* the items in the subtrees of the selected items
SelectedItems(t, sel) == UNION {Subtree(t, n) : n \in sel}

\* the tree t1 is the tree t but for the field `flag` ("wanted" or "priority")
\* of the items of S
SameBut(t, t1, S, flag) ==
    /\ DOMAIN t1 = DOMAIN t
    /\ \A n \in DOMAIN t :
          /\ [t1[n] EXCEPT !.is_wanted_ = t[n].is_wanted_,
                           !.priority_ = t[n].priority_] = t[n]
          /\ (flag # "wanted" \/ n \notin S) => t1[n].is_wanted_ = t[n].is_wanted_
          /\ (flag # "priority" \/ n \notin S) => t1[n].priority_ = t[n].priority_

\* C25: setWanted changes is_wanted_ of items in the subtrees of the selected
\* items and nothing else: no flag outside them, no priority, size, name,
\* parent, row or cache of any item, no item added or removed, index_cache as
\* it was; setPriority likewise changes priority_ in those subtrees alone
C25_EditFrame ==
    /\ [](\A sel \in Selections(items) :
            /\ \A v \in BOOLEAN :
                  \A r \in {setWanted(items, sel, v, {})} :
                     SameBut(items, r.t, SelectedItems(items, sel), "wanted")
            /\ \A pr \in Priorities :
                  \A r \in {setPriority(items, sel, pr, {})} :
                     SameBut(items, r.t, SelectedItems(items, sel), "priority"))
    /\ [][ last'.op \in {"setWanted", "setPriority"} =>
              /\ index_cache' = index_cache
              /\ SameBut(items, items', DOMAIN items,
                         IF last'.op = "setWanted" THEN "wanted" ELSE "priority") ]_vars

\* setWanted has changed the flag of one file of two: the other file holds the
\* other flag, and a file has a priority that is not the normal one
C25_Witness ==
    /\ last.op = "setWanted"
    /\ Cardinality(last.ids) = 1
    /\ \E x, y \in LeavesUnder(items, Root) :
          /\ items[x].file_index_ \in last.ids
          /\ items[y].is_wanted_ # items[x].is_wanted_
    /\ \E x \in LeavesUnder(items, Root) :
          items[x].file_index_ \in last.ids /\ items[x].priority_ # TR_PRI_NORMAL

\* the tree t1 is the tree t but for the name of the item n and for the cache
\* of rows (child_rows_, first_unhashed_row_) of n's parent
RenamedOnly(t, t1, n, nm) ==
    /\ DOMAIN t1 = DOMAIN t
    /\ \A m \in DOMAIN t :
          IF m = n THEN t1[m] = [t[m] EXCEPT !.name_ = nm]
          ELSE IF m = t[n].parent_
          THEN [t1[m] EXCEPT !.child_rows_ = t[m].child_rows_,
                             !.first_unhashed_row_ = t[m].first_unhashed_row_] = t[m]
          ELSE t1[m] = t[m]

\* C26: no call but clear() changes total_size_ of a file, whatever size a
\* snapshot reports for it and whatever torrent_changed is; and update() of an
\* item without a file index changes the item's name and nothing else
C26_SizeFixed ==
    /\ [][ \A n \in DOMAIN items \cap DOMAIN items' :
              items[n].file_index_ >= 0 => items'[n].total_size_ = items[n].total_size_ ]_vars
    /\ [](\A n \in {m \in DOMAIN items : items[m].file_index_ = -1} :
            \A nm \in Names, w \in BOOLEAN, pr \in Priorities, hv \in 0 .. MaxSize,
               uf \in BOOLEAN :
               \A r \in {update(items, n, nm, w, pr, hv, uf)} :
                  /\ RenamedOnly(items, r.t, n, nm)
                  /\ r.changed = IF nm = items[n].name_ THEN <<-1, -1>>
                                 ELSE <<COL_NAME, COL_NAME>>)

\* a snapshot has reported a size for a file of the tree that is not the size
\* the file was created with, and the tree has a directory below the root
C26_Witness ==
    /\ last.op = "addFile" /\ ~last.added /\ last.ok
    /\ index_cache[last.index] # NullItem
    /\ items[index_cache[last.index]].total_size_ # last.size
    /\ \E n \in DOMAIN items \ {Root} : items[n].file_index_ = -1

\* C27: setIds with another selection clears the file tree and raises
\* changed_torrents_, setIds with the same selection changes nothing; nothing
\* else raises the flag; refresh() passes the flag to filesView->update and
\* lowers it, so that the flag is up only while no refresh() has run since the
\* selection changed (the tree is still empty then)
C27_ChangedOnlyBySelection ==
    /\ [][ /\ (last'.op = "setIds" /\ dialog'.ids_ # dialog.ids_) =>
                 /\ dialog'.changed_torrents_
                 /\ DOMAIN items' = {Root} /\ items'[Root].children_ = <<>>
                 /\ index_cache' = NoIndex
           /\ (last'.op = "setIds" /\ dialog'.ids_ = dialog.ids_) =>
                 /\ items' = items /\ index_cache' = index_cache /\ dialog' = dialog
           /\ (dialog'.changed_torrents_ /\ ~dialog.changed_torrents_) =>
                 /\ last'.op = "setIds" /\ dialog'.ids_ # dialog.ids_
           /\ (last'.op = "refresh" /\ last'.updated) =>
                 last'.torrent_changed = dialog.changed_torrents_
           /\ (last'.op = "refresh" /\ last'.ok) => ~dialog'.changed_torrents_
           /\ (dialog.changed_torrents_ /\ ~dialog'.changed_torrents_) =>
                 last'.op = "refresh" ]_vars
    /\ [](dialog.changed_torrents_ => DOMAIN items = {Root})

\* the second refresh() since the selection changed to a single torrent has
\* passed false to filesView->update for a file the first one had created
C27_Witness ==
    /\ last.op = "refresh" /\ last.updated /\ ~last.torrent_changed
    /\ Cardinality(dialog.ids_) = 1
    /\ index_cache[0] # NullItem

C29_SelectedTorrentExists ==
    [][ (last'.op = "refresh" /\ Cardinality(dialog.ids_) = 1) =>
            /\ dialog.ids_ \subseteq dialog.torrents
            /\ last'.ok /\ last'.updated ]_vars

\* C30: whenever the tabs are disabled, a refresh() enables them again
C30_EnabledAgain ==
    (~dialog.enabled) ~> (dialog.enabled /\ last.op = "refresh")

=============================================================================
